---- MODULE Spec2Model ----
(***************************************************************************)
(* A model of xsdata/formats/dataclass/serializers/xml.py: the namespace   *)
(* registry (Namespaces) and the tree builder (XmlSerializer).             *)
(*                                                                         *)
(* Python values are tagged records: the field py names the Python type.   *)
(* A dict is a sequence of <<key, value>> pairs in insertion order.        *)
(***************************************************************************)
EXTENDS Integers, Sequences, FiniteSets, TLC

VARIABLES
    mode,      \* "registry": a session of calls on one Namespaces object;
               \* "start"/"done": one XmlSerializer.render_tree call
    items,     \* Namespaces.items: dict uri -> prefix
    auto_ns,   \* Namespaces.auto_ns
    lastCall,  \* the last call made on the registry, with its arguments
    obj,       \* the object handed to render_tree
    root,      \* what render_tree returned (None before, and when it raised)
    raised     \* the exception render_tree raised (None when it did not)

vars == <<mode, items, auto_ns, lastCall, obj, root, raised>>

----------------------------------------------------------------------------
(* Python values *)

None == [py |-> "NoneType"]
Str(s) == [py |-> "str", v |-> s]
PyInt(n) == [py |-> "int", v |-> n]
List(s) == [py |-> "list", v |-> s]

IsNone(x) == x.py = "NoneType"

\* Python truth value of the values this code tests: None and "" are falsy.
Truthy(x) == IF x.py = "NoneType" THEN FALSE
             ELSE IF x.py = "str" THEN x.v # ""
             ELSE TRUE

\* dict helpers: a dict is a sequence of <<key, value>> pairs.
Keys(d) == {d[i][1] : i \in 1..Len(d)}
Values(d) == [i \in 1..Len(d) |-> d[i][2]]
Get(d, k) == d[CHOOSE i \in 1..Len(d) : d[i][1] = k][2]
Put(d, k, val) ==
    IF k \in Keys(d)
    THEN [i \in 1..Len(d) |-> IF d[i][1] = k THEN <<k, val>> ELSE d[i]]
    ELSE Append(d, <<k, val>>)

----------------------------------------------------------------------------
(* xsdata.models.enums.Namespace: the well-known-namespace catalog *)

XSI == [py |-> "Namespace",
        uri |-> Str("http://www.w3.org/2001/XMLSchema-instance"),
        prefix |-> Str("xsi")]
XS == [py |-> "Namespace",
       uri |-> Str("http://www.w3.org/2001/XMLSchema"),
       prefix |-> Str("xs")]
Namespace == {XSI, XS}

get_enum(uri) ==
    IF \E n \in Namespace : n.uri = uri
    THEN CHOOSE n \in Namespace : n.uri = uri
    ELSE None

----------------------------------------------------------------------------
(* class Namespaces *)

\* Namespaces(): items = {}, auto_ns = 0
Namespaces == [items |-> <<>>, auto_ns |-> 0]

\* list(filter(None, self.items.values()))
prefixes(self) == SelectSeq(Values(self.items), Truthy)

\* {v: k for k, v in self.items.items()}
RECURSIVE Invert(_, _)
Invert(d, acc) ==
    IF d = <<>> THEN acc
    ELSE Invert(Tail(d), Put(acc, d[1][2], d[1][1]))

ns_map(self) == Invert(self.items, <<>>)

\* add, had the caller's prefix been tried before the catalog
add_PrefixFirst(self, uri, prefix) ==
    IF Truthy(uri) /\ uri \notin Keys(self.items)
    THEN IF Truthy(prefix)
         THEN [self EXCEPT !.items = Put(@, uri, prefix)]
         ELSE IF Truthy(get_enum(uri))
         THEN [self EXCEPT !.items = Put(@, uri, get_enum(uri).prefix)]
         ELSE [items |-> Put(self.items, uri,
                             Str("ns" \o ToString(self.auto_ns))),
               auto_ns |-> self.auto_ns + 1]
    ELSE self

\* add, had the counter been advanced by every registration
add_CountsAll(self, uri, prefix) ==
    IF Truthy(uri) /\ uri \notin Keys(self.items)
    THEN [items |-> Put(self.items, uri,
                        IF Truthy(get_enum(uri)) THEN get_enum(uri).prefix
                        ELSE IF ~Truthy(prefix)
                        THEN Str("ns" \o ToString(self.auto_ns))
                        ELSE prefix),
          auto_ns |-> self.auto_ns + 1]
    ELSE self

\* add, without the test "uri not in self.items"
add_Overwrite(self, uri, prefix) ==
    IF Truthy(uri)
    THEN IF Truthy(get_enum(uri))
         THEN [self EXCEPT !.items = Put(@, uri, get_enum(uri).prefix)]
         ELSE IF ~Truthy(prefix)
         THEN [items |-> Put(self.items, uri,
                             Str("ns" \o ToString(self.auto_ns))),
               auto_ns |-> self.auto_ns + 1]
         ELSE [self EXCEPT !.items = Put(@, uri, prefix)]
    ELSE self

\* add, had it tested "prefix is None" in place of "not prefix"
add_KeepsEmpty(self, uri, prefix) ==
    IF Truthy(uri) /\ uri \notin Keys(self.items)
    THEN IF Truthy(get_enum(uri))
         THEN [self EXCEPT !.items = Put(@, uri, get_enum(uri).prefix)]
         ELSE IF IsNone(prefix)
         THEN [items |-> Put(self.items, uri,
                             Str("ns" \o ToString(self.auto_ns))),
               auto_ns |-> self.auto_ns + 1]
         ELSE [self EXCEPT !.items = Put(@, uri, prefix)]
    ELSE self

add(self, uri, prefix) ==
    IF Truthy(uri) /\ uri \notin Keys(self.items)
    THEN LET namespace == get_enum(uri) IN
         IF Truthy(namespace)
         THEN [self EXCEPT !.items = Put(@, uri, namespace.prefix)]
         ELSE IF ~Truthy(prefix)
         THEN [items |-> Put(self.items, uri,
                             Str("ns" \o ToString(self.auto_ns))),
               auto_ns |-> self.auto_ns + 1]
         ELSE [self EXCEPT !.items = Put(@, uri, prefix)]
    ELSE self

\* ns_map is a dict prefix -> uri
RECURSIVE add_all(_, _)
add_all(self, nsmap) ==
    IF nsmap = <<>> THEN self
    ELSE add_all(add(self, nsmap[1][2], nsmap[1][1]), Tail(nsmap))

----------------------------------------------------------------------------
(* Collaborators: lxml elements, the value converter, the class metadata *)

\* lxml.etree.QName(namespace, localname); namespace is None when unqualified
QName(namespace, localname) ==
    [py |-> "QName", namespace |-> namespace, localname |-> localname]

\* lxml.etree.Element(qname): no attributes, text, tail or children yet
Element(qname) ==
    [py |-> "Element", tag |-> qname, attrib |-> <<>>, nsmap |-> <<>>,
     text |-> None, tail |-> None, children |-> <<>>]

\* lxml.etree.cleanup_namespaces(root, top_nsmap, keep_ns_prefixes): the
\* declarations move to the root; tags, attributes and content stay.
cleanup_namespaces(tree, top_nsmap, keep_ns_prefixes) ==
    [tree EXCEPT !.nsmap = top_nsmap]

\* xsdata.formats.converters.to_xml: primitive value -> lexical text
to_xml(value) ==
    CASE value.py = "str" -> value
      [] value.py = "int" -> Str(ToString(value.v))
      [] value.py = "bool" -> Str(IF value.v THEN "true" ELSE "false")

is_dataclass(value) == value.py = "dataclass"

\* ModelInspect.class_meta: the instance's class carries its descriptor
class_meta(o) == o.meta

\* ClassVar: [name, qname, namespace, tag, is_nillable]
is_attribute(var) == var.tag = "Attribute"
is_any_attribute(var) == var.tag = "Attributes"
is_any_element(var) == var.tag = "Wildcard"
is_text(var) == var.tag = "Text"

\* getattr(obj, var.name): the instance holds one value per declared field
getattr(o, i) == o.vals[i]

SerializerError == [py |-> "SerializerError",
                    msg |-> "Text nodes can't be dataclasses!"]

----------------------------------------------------------------------------
(* class XmlSerializer *)

\* parent.set(var.qname, to_xml(value))
set_attribute(parent, value, var) ==
    [parent EXCEPT !.attrib = Put(@, var.qname, to_xml(value))]

\* for key, value in values.items(): parent.set(key, value)
RECURSIVE set_attributes(_, _)
set_attributes(parent, values) ==
    IF values = <<>> THEN parent
    ELSE set_attributes([parent EXCEPT !.attrib = Put(@, values[1][1], values[1][2])],
                        Tail(values))

set_text(parent, value) == [parent EXCEPT !.text = to_xml(value)]

\* What a call leaves behind: the element it worked on, the registry, and
\* the exception it raised (None when it returned).
Returned(parent, namespaces) ==
    [parent |-> parent, namespaces |-> namespaces, raised |-> None]
Raise(parent, namespaces, exc) ==
    [parent |-> parent, namespaces |-> namespaces, raised |-> exc]

\* set_nil_attribute, had it also asked for an element without attributes
set_nil_attribute_Bare(var, element, namespaces) ==
    IF /\ var.is_nillable /\ IsNone(element.text)
       /\ Len(element.children) = 0 /\ Len(element.attrib) = 0
    THEN Returned([element EXCEPT
                     !.attrib = Put(@, QName(XSI.uri, "nil"), Str("true"))],
                  add(namespaces, XSI.uri, XSI.prefix))
    ELSE Returned(element, namespaces)

set_nil_attribute(var, element, namespaces) ==
    IF var.is_nillable /\ IsNone(element.text) /\ Len(element.children) = 0
    THEN Returned([element EXCEPT
                     !.attrib = Put(@, QName(XSI.uri, "nil"), Str("true"))],
                  add(namespaces, XSI.uri, XSI.prefix))
    ELSE Returned(element, namespaces)

\* value if isinstance(value, list) else [value]
AsList(value) == IF value.py = "list" THEN value.v ELSE <<value>>

\* SubElement(parent, ...), once the sub element r.parent is built
Attach(parent, r) ==
    [r EXCEPT !.parent = [parent EXCEPT !.children = Append(@, r.parent)]]

RECURSIVE set_any_children(_, _, _), AnyLoop(_, _), AnyChildren(_, _)

\* the body of the loop of set_any_children for one item
AnyItem(parent, val, namespaces) ==
    CASE val.py = "str" ->
           Returned(IF Truthy(parent.text)
                    THEN [parent EXCEPT !.tail = val]
                    ELSE [parent EXCEPT !.text = val],
                    namespaces)
      [] val.py = "AnyText" ->
           Returned(set_attributes([parent EXCEPT !.text = val.text],
                                   val.attributes),
                    add_all(namespaces, val.nsmap))
      [] val.py = "AnyElement" ->
           Attach(parent,
                  AnyChildren(Returned([Element(val.qname) EXCEPT
                                          !.text = val.text, !.tail = val.tail],
                                       add(namespaces, val.qname.namespace, None)),
                              val.children))
      [] OTHER -> Returned(parent, namespaces)

\* for child in val.children: cls.set_any_children(sub_element, child, ...)
AnyChildren(r, vals) ==
    IF vals = <<>> THEN r
    ELSE AnyChildren(set_any_children(r.parent, vals[1], r.namespaces),
                     Tail(vals))

\* for val in value: ...
AnyLoop(r, vals) ==
    IF vals = <<>> THEN r
    ELSE AnyLoop(AnyItem(r.parent, vals[1], r.namespaces), Tail(vals))

set_any_children(parent, value, namespaces) ==
    AnyLoop(Returned(parent, namespaces), AsList(value))

RECURSIVE render_node(_, _, _), RenderVars(_, _, _), set_children(_, _, _, _),
          ChildLoop(_, _, _)

\* a present value, dispatched on the field's classification
Dispatch(var, value, parent, namespaces) ==
    IF is_attribute(var)
    THEN Returned(set_attribute(parent, value, var), namespaces)
    ELSE IF is_any_attribute(var)
    THEN Returned(set_attributes(parent, value.v), namespaces)
    ELSE IF is_any_element(var)
    THEN set_any_children(parent, value, namespaces)
    ELSE IF is_text(var)
    THEN IF is_dataclass(value)
         THEN Raise(parent, namespaces, SerializerError)
         ELSE Returned(set_text(parent, value), namespaces)
    ELSE set_children(parent, value, var, namespaces)

\* RenderVar, had an absent element field been given an empty child
RenderVar_EmptyChild(var, value, parent, namespaces) ==
    IF ~IsNone(value)
    THEN Dispatch(var, value, parent,
                  IF ~is_any_element(var)
                  THEN add(namespaces, var.namespace, None)
                  ELSE namespaces)
    ELSE IF is_text(var)
    THEN set_nil_attribute(var, parent, namespaces)
    ELSE IF var.tag = "Element"
    THEN Attach(parent, Returned(Element(var.qname), namespaces))
    ELSE Returned(parent, namespaces)

\* the body of the loop of render_node for one field
RenderVar(var, value, parent, namespaces) ==
    IF ~IsNone(value)
    THEN Dispatch(var, value, parent,
                  IF ~is_any_element(var)
                  THEN add(namespaces, var.namespace, None)
                  ELSE namespaces)
    ELSE IF is_text(var)
    THEN set_nil_attribute(var, parent, namespaces)
    ELSE Returned(parent, namespaces)

\* for var in meta.vars.values(): ..., from field i on; an exception ends it
RenderVars(o, i, r) ==
    IF i > Len(class_meta(o).vars) \/ ~IsNone(r.raised) THEN r
    ELSE RenderVars(o, i + 1,
                    RenderVar(class_meta(o).vars[i], getattr(o, i),
                              r.parent, r.namespaces))

render_node(o, parent, namespaces) ==
    IF ~is_dataclass(o)
    THEN Returned([parent EXCEPT !.text = to_xml(o)], namespaces)
    ELSE RenderVars(o, 1, Returned(parent, namespaces))

\* self.set_nil_attribute(var, sub_element, namespaces), unless render_node
\* raised
ChildNil(var, r) ==
    IF ~IsNone(r.raised) THEN r
    ELSE set_nil_attribute(var, r.parent, r.namespaces)

\* the body of the loop of set_children for one item
ChildItem(parent, val, var, namespaces) ==
    Attach(parent,
           ChildNil(var, render_node(val, Element(var.qname), namespaces)))

\* for val in value: ...; an exception ends it
ChildLoop(r, vals, var) ==
    IF vals = <<>> \/ ~IsNone(r.raised) THEN r
    ELSE ChildLoop(ChildItem(r.parent, vals[1], var, r.namespaces),
                   Tail(vals), var)

set_children(parent, value, var, namespaces) ==
    ChildLoop(Returned(parent, namespaces), AsList(value), var)

\* Finish, had the tree built so far been returned when render_node raised
Finish_Partial(r) ==
    [root |-> cleanup_namespaces(r.parent, ns_map(r.namespaces),
                                 prefixes(r.namespaces)),
     namespaces |-> r.namespaces, raised |-> r.raised]

\* cleanup_namespaces(root, ...); return root, unless render_node raised
Finish(r) ==
    IF ~IsNone(r.raised)
    THEN [root |-> None, namespaces |-> r.namespaces, raised |-> r.raised]
    ELSE [root |-> cleanup_namespaces(r.parent, ns_map(r.namespaces),
                                      prefixes(r.namespaces)),
          namespaces |-> r.namespaces, raised |-> None]

\* render_tree(obj): [root, namespaces, raised]; a raised exception leaves the
\* caller without a root.
render_tree(o) ==
    Finish(render_node(o, Element(class_meta(o).qname),
                       add(Namespaces, class_meta(o).namespace, None)))

----------------------------------------------------------------------------
(* The calls a registry session draws from *)

NumUris == 2

Uris == {Str("urn:" \o ToString(i)) : i \in 1..NumUris}
UriArgs == {None, Str("")} \cup Uris \cup {XSI.uri}
PrefixArgs == {None, Str(""), Str("p"), Str("ns0")}

\* dicts prefix -> uri of at most two entries, as a parser's namespace map
\* gives them: distinct keys, the default namespace under the key None.
NsMapKeys == {None, Str("p")}
NsMapUris == {Str("urn:1"), Str("urn:2"), XSI.uri}
NsMaps ==
    {<<>>}
    \cup {<<(<<k, u>>)>> : k \in NsMapKeys, u \in NsMapUris}
    \cup {d \in {<<(<<k1, u1>>), (<<k2, u2>>)>> :
                    k1 \in NsMapKeys, u1 \in NsMapUris,
                    k2 \in NsMapKeys, u2 \in NsMapUris} :
            d[1][1] # d[2][1]}

NoCall == [op |-> "none"]

----------------------------------------------------------------------------
(* The objects a render draws from *)

MaxItems == 2   \* longest list held by an element field
MaxAny == 3     \* longest list held by a wildcard field

RECURSIVE SeqsUpTo(_, _)
SeqsUpTo(S, n) ==
    IF n = 0 THEN {<<>>}
    ELSE LET shorter == SeqsUpTo(S, n - 1) IN
         shorter \cup {Append(q, x) : q \in {e \in shorter : Len(e) = n - 1},
                                      x \in S}

Unqualified(ns) == IF Truthy(ns) THEN ns ELSE None

ClassMeta(name, ns, vs) ==
    [name |-> name, qname |-> QName(Unqualified(ns), name),
     namespace |-> ns, vars |-> vs]
ClassVar(name, ns, tag, nillable) ==
    [name |-> name, qname |-> QName(Unqualified(ns), name),
     namespace |-> ns, tag |-> tag, is_nillable |-> nillable]
Dataclass(meta, vals) == [py |-> "dataclass", meta |-> meta, vals |-> vals]

TextVar(n) == ClassVar("value", None, "Text", n)
ElemVar(name, ns, n) == ClassVar(name, ns, "Element", n)
AttrVar == ClassVar("id", Str("urn:2"), "Attribute", FALSE)
AttrsVar == ClassVar("attributes", None, "Attributes", FALSE)
WildVar == ClassVar("any", Str("##any"), "Wildcard", FALSE)

AnyText(text, nsmap, attributes) ==
    [py |-> "AnyText", text |-> text, nsmap |-> nsmap,
     attributes |-> attributes]
AnyElement(qname, text, tail, children) ==
    [py |-> "AnyElement", qname |-> qname, text |-> text, tail |-> tail,
     children |-> children]

\* every instance of meta (one or two fields), V[i] the values of field i
Instances(meta, V) ==
    IF Len(meta.vars) = 1
    THEN {Dataclass(meta, <<a>>) : a \in V[1]}
    ELSE {Dataclass(meta, <<a, b>>) : a \in V[1], b \in V[2]}

\* the orderings of one or two different fields of a pool
Shapes(pool) ==
    {<<a>> : a \in pool}
    \cup {s \in {<<a, b>> : a \in pool, b \in pool} : s[1].name # s[2].name}

\* A record without fields, and the records that element fields hold.
Leaf == Dataclass(ClassMeta("Leaf", Str(""), <<>>), <<>>)
InnerPool == {TextVar(FALSE), TextVar(TRUE),
              ElemVar("number", Str(""), FALSE), AttrVar}
InnerValues(var) ==
    IF is_text(var) THEN {None, Str("Shirt"), Leaf}
    ELSE {None, PyInt(1)}
InnerObjects ==
    {Leaf} \cup UNION {Instances(ClassMeta("Inner", Str(""), vs),
                                 [i \in 1..Len(vs) |-> InnerValues(vs[i])]) :
                         vs \in Shapes(InnerPool)}

\* Records built around one element field.
Prims == {PyInt(1), Str("Shirt")}
ElementPool == {TextVar(FALSE), TextVar(TRUE),
                ElemVar("item", Str("urn:2"), FALSE),
                ElemVar("item", Str("urn:2"), TRUE),
                AttrVar, AttrsVar}
ElementValues(var) ==
    IF is_text(var) THEN {None, Str("Shirt"), Leaf}
    ELSE IF is_attribute(var) THEN {None, PyInt(1)}
    ELSE IF is_any_attribute(var)
    THEN {None, [py |-> "dict", v |-> <<(<<QName(None, "k"), Str("v")>>)>>]}
    ELSE {None} \cup Prims \cup InnerObjects
         \cup {List(q) : q \in SeqsUpTo(Prims, MaxItems)}
         \cup {List(<<Leaf, PyInt(1)>>)}
ElementObjects ==
    UNION {Instances(ClassMeta("Root", ns, vs),
                     [i \in 1..Len(vs) |-> ElementValues(vs[i])]) :
             ns \in {Str(""), Str("urn:1")}, vs \in Shapes(ElementPool)}

\* Records built around one wildcard field.
ElementB == AnyElement(QName(None, "b"), Str("bold"), None, <<>>)
ElementC == AnyElement(QName(Str("urn:2"), "c"), Str("t"), Str("tl"),
                       <<Str("in"), ElementB>>)
Text1 == AnyText(Str("txt"),
                 <<(<<None, Str("urn:1")>>), (<<Str("p"), XSI.uri>>)>>,
                 <<(<<QName(None, "k"), Str("v")>>)>>)
WildItems == {Str("lead "), Str(" trail"), ElementB, ElementC, Text1}
WildPool == {WildVar, TextVar(TRUE), ElemVar("color", Str(""), FALSE)}
WildValues(var) ==
    IF is_any_element(var)
    THEN {None} \cup WildItems
         \cup {List(q) : q \in SeqsUpTo(WildItems, MaxAny)}
    ELSE {None, Str("Shirt")}
WildObjects ==
    UNION {Instances(ClassMeta("Root", Str(""), vs),
                     [i \in 1..Len(vs) |-> WildValues(vs[i])]) :
             vs \in {s \in Shapes(WildPool) :
                       \E i \in 1..Len(s) : is_any_element(s[i])}}

\* tests/fixtures/defxmlschema/chapter12/example1215.py, with color declared
\* nillable or not.
ProductType(nillable) ==
    ClassMeta("ProductType", Str(""),
              <<ElemVar("number", Str(""), FALSE),
                ElemVar("name", Str(""), FALSE),
                ElemVar("size", Str(""), FALSE),
                ElemVar("color", Str(""), nillable)>>)
Products ==
    {Dataclass(ProductType(n), <<number, name, size, color>>) :
       n \in BOOLEAN,
       number \in {None, PyInt(1)},
       name \in {None, Str("Shirt")},
       size \in {None, PyInt(10), Str("M")},
       color \in {None, Str("blue")}}

Objects == ElementObjects \cup WildObjects \cup Products

----------------------------------------------------------------------------
(* The state machine *)

\* a fresh Namespaces object, to be called upon
InitRegistry ==
    /\ mode = "registry"
    /\ items = Namespaces.items
    /\ auto_ns = Namespaces.auto_ns
    /\ lastCall = NoCall
    /\ obj = None
    /\ root = None
    /\ raised = None

\* an XmlSerializer about to render one object
InitRender ==
    /\ mode = "start"
    /\ items = Namespaces.items
    /\ auto_ns = Namespaces.auto_ns
    /\ lastCall = NoCall
    /\ obj \in Objects
    /\ root = None
    /\ raised = None

Init == InitRegistry \/ InitRender

Self == [items |-> items, auto_ns |-> auto_ns]

Add(uri, prefix) ==
    /\ mode = "registry"
    /\ LET self == add(Self, uri, prefix) IN
       /\ items' = self.items
       /\ auto_ns' = self.auto_ns
    /\ lastCall' = [op |-> "add", uri |-> uri, prefix |-> prefix]
    /\ UNCHANGED <<mode, obj, root, raised>>

AddAll(nsmap) ==
    /\ mode = "registry"
    /\ LET self == add_all(Self, nsmap) IN
       /\ items' = self.items
       /\ auto_ns' = self.auto_ns
    /\ lastCall' = [op |-> "add_all", ns_map |-> nsmap]
    /\ UNCHANGED <<mode, obj, root, raised>>

\* render_tree(obj); items and auto_ns show the registry of this render
RenderTree ==
    /\ mode = "start"
    /\ LET r == render_tree(obj) IN
       /\ root' = r.root
       /\ raised' = r.raised
       /\ items' = r.namespaces.items
       /\ auto_ns' = r.namespaces.auto_ns
    /\ mode' = "done"
    /\ UNCHANGED <<lastCall, obj>>

Next ==
    \/ \E uri \in UriArgs, prefix \in PrefixArgs : Add(uri, prefix)
    \/ \E nsmap \in NsMaps : AddAll(nsmap)
    \/ RenderTree

Spec == Init /\ [][Next]_vars

----------------------------------------------------------------------------
(* Views of the state that the properties use *)

WellKnown(uri) == Truthy(get_enum(uri))
NsName(n) == Str("ns" \o ToString(n))
Done == mode = "done"
Rendered == mode = "done" /\ IsNone(raised)

NilAttr == <<QName(XSI.uri, "nil"), Str("true")>>
HasNil(el) == \E i \in 1..Len(el.attrib) : el.attrib[i] = NilAttr
IsEmpty(el) == IsNone(el.text) /\ Len(el.children) = 0

IsElementVar(var) == var.tag = "Element"
Items(value) == IF IsNone(value) THEN <<>> ELSE AsList(value)
QNamesOf(vals) ==
    LET els == SelectSeq(vals, LAMBDA x : x.py = "AnyElement")
    IN [k \in 1..Len(els) |-> els[k].qname]

\* The tags of the children that the first n fields of o call for: one per
\* item of an element field, one per annotated element of a wildcard field.
RECURSIVE ExpectedTags(_, _)
ExpectedTags(o, n) ==
    IF n = 0 THEN <<>>
    ELSE ExpectedTags(o, n - 1) \o
         (IF IsElementVar(o.meta.vars[n])
          THEN [k \in 1..Len(Items(o.vals[n])) |-> o.meta.vars[n].qname]
          ELSE IF is_any_element(o.meta.vars[n])
          THEN QNamesOf(Items(o.vals[n]))
          ELSE <<>>)

ChildTags(el) == [k \in 1..Len(el.children) |-> el.children[k].tag]

\* child of el built for item j of field i of o
ChildOf(o, el, i, j) == el.children[Len(ExpectedTags(o, i - 1)) + j]

\* o without its non-text fields whose value is absent
RECURSIVE Present(_, _)
Present(o, n) ==
    IF n = 0 THEN <<>>
    ELSE IF IsNone(o.vals[n]) /\ ~is_text(o.meta.vars[n])
    THEN Present(o, n - 1)
    ELSE Append(Present(o, n - 1), n)
WithoutAbsent(o) ==
    LET keep == Present(o, Len(o.vals)) IN
    Dataclass([o.meta EXCEPT !.vars = [k \in 1..Len(keep) |-> o.meta.vars[keep[k]]]],
              [k \in 1..Len(keep) |-> o.vals[keep[k]]])

\* the traversal of o reaches a text field that holds a record
RECURSIVE ReachesTextRecord(_)
ReachesTextRecord(o) ==
    \E i \in 1..Len(o.vals) :
       \/ is_text(o.meta.vars[i]) /\ is_dataclass(o.vals[i])
       \/ /\ IsElementVar(o.meta.vars[i])
          /\ \E j \in 1..Len(Items(o.vals[i])) :
                /\ is_dataclass(Items(o.vals[i])[j])
                /\ ReachesTextRecord(Items(o.vals[i])[j])

----------------------------------------------------------------------------
(* Namespace registry *)

\* C1: every registered URI has one prefix and no prefix is held by two URIs,
\* so ns_map has as many entries as the registry has URIs.
C1_NamespaceBijection ==
    /\ \A i, j \in 1..Len(items) : items[i][1] = items[j][1] => i = j
    /\ \A i, j \in 1..Len(items) : items[i][2] = items[j][2] => i = j
    /\ Len(ns_map(Self)) = Len(items)

\* C5: a well-known URI is always registered under the catalog's prefix, and
\* an add of a well-known URI, whatever prefix the caller gives, does not
\* advance the auto-naming counter.
C5_Step ==
    /\ (lastCall'.op = "add" /\ WellKnown(lastCall'.uri)) =>
          /\ Get(items', lastCall'.uri) = get_enum(lastCall'.uri).prefix
          /\ auto_ns' = auto_ns
    /\ lastCall'.op = "add_all" =>
          \A k \in 1..Len(lastCall'.ns_map) :
             WellKnown(lastCall'.ns_map[k][2]) =>
                Get(items', lastCall'.ns_map[k][2])
                   = get_enum(lastCall'.ns_map[k][2]).prefix
C5_WellKnownPrecedence ==
    /\ [](\A u \in Keys(items) : WellKnown(u) => Get(items, u) = get_enum(u).prefix)
    /\ [][C5_Step]_vars

C5_Witness ==
    /\ lastCall.op = "add"
    /\ lastCall.uri = XSI.uri
    /\ lastCall.prefix = Str("p")
    /\ Len(items) = 2
    /\ items[2] = <<XSI.uri, XSI.prefix>>
    /\ auto_ns = 1

\* C6: an add of a non-empty, unregistered, not well-known URI without a
\* prefix registers it as ns{counter} and advances the counter by one; every
\* other add leaves the counter alone; add_all advances it once per entry that
\* is such an add; so the counter values handed out are all in use: ns0, ns1,
\* ... without gaps.
AutoNamed(its, uri, prefix) ==
    Truthy(uri) /\ uri \notin Keys(its) /\ ~WellKnown(uri) /\ ~Truthy(prefix)
FirstOf(nsmap, k) == \A j \in 1..(k - 1) : nsmap[j][2] # nsmap[k][2]
C6_Step ==
    /\ lastCall'.op = "add" =>
          IF AutoNamed(items, lastCall'.uri, lastCall'.prefix)
          THEN /\ items' = Append(items, <<lastCall'.uri, NsName(auto_ns)>>)
               /\ auto_ns' = auto_ns + 1
          ELSE auto_ns' = auto_ns
    /\ lastCall'.op = "add_all" =>
          auto_ns' = auto_ns + Cardinality(
              {k \in 1..Len(lastCall'.ns_map) :
                 /\ FirstOf(lastCall'.ns_map, k)
                 /\ AutoNamed(items, lastCall'.ns_map[k][2],
                              lastCall'.ns_map[k][1])})
C6_AutoNamingOrder ==
    /\ [](\A k \in 0..(auto_ns - 1) :
            \E i \in 1..Len(items) : items[i][2] = NsName(k))
    /\ [][C6_Step]_vars

C6_Witness ==
    /\ lastCall = [op |-> "add", uri |-> Str("urn:2"), prefix |-> None]
    /\ items = <<(<<Str("urn:1"), NsName(0)>>), (<<XSI.uri, XSI.prefix>>),
                 (<<Str("urn:2"), NsName(1)>>)>>
    /\ auto_ns = 2

\* C9: a call never removes or rewrites an entry, and an add of an empty,
\* absent or registered URI, or an add_all of such URIs only, leaves the
\* entries and the counter as they were.
NoOp(its, uri) == ~Truthy(uri) \/ uri \in Keys(its)
C9_Step ==
    /\ Len(items') >= Len(items)
    /\ \A i \in 1..Len(items) : items'[i] = items[i]
    /\ auto_ns' >= auto_ns
    /\ (lastCall'.op = "add" /\ NoOp(items, lastCall'.uri)) =>
          items' = items /\ auto_ns' = auto_ns
    /\ (/\ lastCall'.op = "add_all"
        /\ \A k \in 1..Len(lastCall'.ns_map) :
              NoOp(items, lastCall'.ns_map[k][2])) =>
          items' = items /\ auto_ns' = auto_ns
C9_FirstRegistrationWins == [][C9_Step]_vars

C9_Witness ==
    /\ lastCall = [op |-> "add", uri |-> Str("urn:1"), prefix |-> Str("p")]
    /\ items = <<(<<Str("urn:1"), NsName(0)>>)>>
    /\ auto_ns = 1

\* C10: no prefix in the registry is empty or absent, so prefixes is the
\* list of all registered prefixes; and the registry of a render whose root
\* namespace is not well-known starts with that namespace as ns0.
C10_NoDefaultPrefix ==
    /\ \A i \in 1..Len(items) : Truthy(items[i][2])
    /\ prefixes(Self) = Values(items)
    /\ (Done /\ Truthy(obj.meta.namespace) /\ ~WellKnown(obj.meta.namespace)) =>
          /\ Len(items) >= 1
          /\ items[1] = <<obj.meta.namespace, NsName(0)>>

C10_Witness ==
    /\ Rendered
    /\ obj.meta.namespace = Str("urn:1")
    /\ Len(items) = 3
    /\ items[1] = <<Str("urn:1"), NsName(0)>>
    /\ items[3] = <<XSI.uri, XSI.prefix>>

----------------------------------------------------------------------------
(* Tree builder *)

\* C2: a plain-text item met when the parent has text becomes the tail of
\* the parent's latest child and the parent's own tail stays as it was: the
\* root keeps no tail, and for a root whose one wildcard field holds
\* [text, annotated element, text] the root's text is the first text, it has
\* one child for the element, and that child's tail is the second text.
LeadChildTrail(o) ==
    /\ Len(o.vals) = 1
    /\ is_any_element(o.meta.vars[1])
    /\ o.vals[1].py = "list"
    /\ Len(o.vals[1].v) = 3
    /\ o.vals[1].v[1].py = "str"
    /\ o.vals[1].v[2].py = "AnyElement"
    /\ o.vals[1].v[2].children = <<>>
    /\ o.vals[1].v[3].py = "str"
C2_MixedContent ==
    Rendered =>
       /\ IsNone(root.tail)
       /\ LeadChildTrail(obj) =>
             /\ root.text = obj.vals[1].v[1]
             /\ Len(root.children) = 1
             /\ root.children[1].tag = obj.vals[1].v[2].qname
             /\ root.children[1].text = obj.vals[1].v[2].text
             /\ root.children[1].tail = obj.vals[1].v[3]

RECURSIVE NilPolicyHolds(_, _)
NilPolicyHolds(o, el) ==
    \A i \in 1..Len(o.vals) :
       /\ (is_text(o.meta.vars[i]) /\ o.meta.vars[i].is_nillable
           /\ IsNone(o.vals[i])) =>
             (HasNil(el) <=> IsEmpty(el))
       /\ IsElementVar(o.meta.vars[i]) =>
             \A j \in 1..Len(Items(o.vals[i])) :
                /\ o.meta.vars[i].is_nillable =>
                      (HasNil(ChildOf(o, el, i, j))
                         <=> IsEmpty(ChildOf(o, el, i, j)))
                /\ is_dataclass(Items(o.vals[i])[j]) =>
                      NilPolicyHolds(Items(o.vals[i])[j], ChildOf(o, el, i, j))
C4_NilMarking == Rendered => NilPolicyHolds(obj, root)

\* C7: render_tree raises SerializerError exactly when the traversal reaches
\* a text field that holds a record, at any depth; then the caller gets no
\* root, and otherwise it gets an element.
C7_TextInText ==
    Done =>
       /\ ~IsNone(raised) <=> ReachesTextRecord(obj)
       /\ ~IsNone(raised) => raised = SerializerError /\ IsNone(root)
       /\ IsNone(raised) => root.py = "Element"

C7_Witness ==
    /\ Done
    /\ raised = SerializerError
    /\ IsNone(root)
    /\ \E i \in 1..Len(obj.vals) :
          /\ IsElementVar(obj.meta.vars[i])
          /\ is_dataclass(obj.vals[i])
          /\ \E k \in 1..Len(obj.vals[i].vals) :
                /\ is_text(obj.vals[i].meta.vars[k])
                /\ obj.vals[i].vals[k] = Leaf

\* C8: the children of the root are, in declared field order, one per item
\* of each present element field, named by the field (and one per annotated
\* element of a wildcard field); and a non-text field whose value is absent
\* adds nothing: the render is that of the record without the field.
C8_ElementChildren ==
    Rendered =>
       /\ ChildTags(root) = ExpectedTags(obj, Len(obj.vals))
       /\ render_tree(WithoutAbsent(obj)) =
             [root |-> root, raised |-> raised,
              namespaces |-> [items |-> items, auto_ns |-> auto_ns]]

C8_Witness ==
    /\ Rendered
    /\ obj = Dataclass(ProductType(FALSE),
                       <<PyInt(1), Str("Shirt"), PyInt(10), None>>)
    /\ ChildTags(root) = <<QName(None, "number"), QName(None, "name"),
                           QName(None, "size")>>
    /\ [k \in 1..3 |-> root.children[k].text] = <<Str("1"), Str("Shirt"), Str("10")>>
    /\ items = <<>>

====
